---- MODULE Spec2Model ----
(***************************************************************************)
(* Model of sa_api_v2/serializers.py: the attribute-blob codec             *)
(* (DataBlobProcessor), the URL-argument resolver (ShareaboutsFieldMixin), *)
(* the cache-key preloader (CachedSerializer) and the place serializer     *)
(* with its submission-set summaries and details (PlaceSerializer).        *)
(***************************************************************************)
EXTENDS Integers, Sequences, FiniteSets, TLC

VARIABLES
    visible,     \* primary store: Submission pk -> its `visible` column
    placeData,   \* primary store: Place pk -> its `data` column (serialized blob)
    backend,     \* shared cache backend: instance-params key -> cached params
    buffer,      \* cache_buffer: the request-local view of the backend
    request,     \* the serializer under work: GET flags, `many`, `object`
    phase,       \* "idle", "begun", "rendering", "done", "failed"
    pos,         \* number of members of the object already rendered
    output,      \* documents rendered so far, in order
    modes,       \* the submission-sets getter chosen for each rendered place
    resolved,    \* log of get_url_kwargs calls made by the last to_native
    getManyCalls,\* cache_buffer.get_many calls issued in this request
    fetched,     \* the key list handed to the last get_many
    getCalls,    \* backend round trips caused by single-key lookups
                 \* in this request
    evictions,   \* entries the backend dropped during this request
    written,     \* the last restore_fields call: its data and its result
    flat         \* the last dictionary explode_data_blob returned

storeVars == <<visible, placeData>>

renderVars == <<backend, buffer, request, phase, pos, output, modes,
                resolved, getManyCalls, fetched, getCalls, evictions>>

codecVars == <<written, flat>>

vars == <<storeVars, renderVars, codecVars>>

-----------------------------------------------------------------------------
(* Bounds of the model *)

\* longest collection handed to a serializer
MaxItems == 2

\* most entries the backend drops while one request is served
MaxEvictions == 1

\* most keys in the data a client sends to restore_fields
MaxInputKeys == 2

-----------------------------------------------------------------------------
(* The primary store.  One owner, one dataset; places 1 and 2; place 1 has  *)
(* the submission sets "comments" (submissions 3 and 4) and "support" (no   *)
(* submission), place 2 has none.  Places and submissions share the         *)
(* primary-key space of submitted things; submission sets and datasets      *)
(* number their rows on their own.                                          *)

PlacePks == {1, 2}

SubmissionSetPks == {1, 2}

SubmissionPks == {3, 4}

DataSetPks == {1}

NoValue == "None"

place_dataset_id(p) == 1

dataset_owner_username(d) == "alice"

dataset_slug(d) == "ds"

submission_set_place_id(ss) == 1

submission_set_name(ss) == IF ss = 2 THEN "support" ELSE "comments"

\* obj.submission_sets.all()
place_submission_sets(p) == IF p = 1 THEN <<1, 2>> ELSE <<>>

\* submission_set.children.all()
submission_set_children(ss) ==
    IF ss = 1 THEN <<3, 4>> ELSE <<>>

submission_parent_id(s) == 1

-----------------------------------------------------------------------------
(* Python dictionaries are functions with a finite domain of strings. *)

EmptyDict == <<>>

\* d.update(e)
DictUpdate(d, e) ==
    [k \in DOMAIN d \cup DOMAIN e |-> IF k \in DOMAIN e THEN e[k] ELSE d[k]]

\* d without key k (del d[k], d.pop(k))
DictRemove(d, k) == [x \in DOMAIN d \ {k} |-> d[x]]

\* d[k] = v
DictSet(d, k, v) == [x \in DOMAIN d \cup {k} |-> IF x = k THEN v ELSE d[x]]

\* key.startswith('private')
StartsWithPrivate(key) == Len(key) >= 7 /\ SubSeq(key, 1, 7) = "private"

-----------------------------------------------------------------------------
(* ujson.  A serialized object is the sequence of its <<key, value>> pairs, *)
(* written in the order of KeyOrder; reading it keeps, for a key written    *)
(* more than once, the pair written last.                                   *)

KeyOrder == <<"url", "id", "geometry", "dataset", "attachments", "submitter",
              "data", "visible", "created_datetime", "updated_datetime",
              "submission_sets", "set", "place", "notes", "comment",
              "private", "private_phone", "private_email", "privacy">>

RECURSIVE json_dumps_from(_, _)
json_dumps_from(blob, i) ==
    IF i > Len(KeyOrder) THEN <<>>
    ELSE IF KeyOrder[i] \in DOMAIN blob
         THEN <<<<KeyOrder[i], blob[KeyOrder[i]]>>>> \o json_dumps_from(blob, i + 1)
         ELSE json_dumps_from(blob, i + 1)

json_dumps(blob) == json_dumps_from(blob, 1)

json_loads(text) ==
    [k \in {text[i][1] : i \in DOMAIN text} |->
        LET last == CHOOSE i \in DOMAIN text :
                        /\ text[i][1] = k
                        /\ \A j \in DOMAIN text : text[j][1] = k => j <= i
        IN  text[last][2]]

-----------------------------------------------------------------------------
(* The instance-params cache (sa_api_v2/cache.py, which serializers.py      *)
(* imports): one entry per entity kind and primary key, holding the         *)
(* ancestor identifiers of the entity; cache_buffer keeps what the request  *)
(* has fetched or set so far.                                               *)

\* cache.get_instance_params_key(pk), for the cache of a model of `kind`
get_instance_params_key(kind, pk) == <<kind, pk>>

\* live derivation from the entity's ancestor chain
get_instance_params(kind, pk) ==
    LET ofDataSet(d) == ("owner_username" :> dataset_owner_username(d)) @@
                        ("dataset_slug" :> dataset_slug(d))
        ofPlace(p) == ofDataSet(place_dataset_id(p)) @@ ("place_id" :> p)
        ofSet(ss) == ofPlace(submission_set_place_id(ss)) @@
                     ("submission_set_name" :> submission_set_name(ss))
        ofSubmission(s) == ofSet(submission_parent_id(s)) @@
                           ("submission_id" :> s)
    IN  CASE kind = "dataset" -> ofDataSet(pk)
          [] kind = "place" -> ofPlace(pk)
          [] kind = "submission_set" -> ofSet(pk)
          [] kind = "submission" -> ofSubmission(pk)

\* Every entry the cache can come to hold.
AllKeys ==
    {get_instance_params_key("dataset", d) : d \in DataSetPks} \cup
    {get_instance_params_key("place", p) : p \in PlacePks} \cup
    {get_instance_params_key("submission_set", ss) : ss \in SubmissionSetPks} \cup
    {get_instance_params_key("submission", s) : s \in SubmissionPks}

\* cache_buffer.get_many(keys) on the cache state
\* c = [buffer, backend, gets, log]: one fetch of the keys the request has
\* not resolved yet.
cache_buffer_get_many(c, keys) ==
    LET want == {keys[i] : i \in DOMAIN keys} \ DOMAIN c.buffer
        hits == want \cap DOMAIN c.backend
    IN  [c EXCEPT !.buffer = [k \in DOMAIN c.buffer \cup hits |->
                                 IF k \in DOMAIN c.buffer THEN c.buffer[k]
                                 ELSE c.backend[k]]]

\* cache.get_cached_instance_params(pk, obj_getter): the buffered entry, else
\* the backend's (one round trip), else the live derivation, which is then
\* set in the cache.
get_cached_instance_params(c, key, live) ==
    IF key \in DOMAIN c.buffer
    THEN [params |-> c.buffer[key], hit |-> TRUE, cache |-> c]
    ELSE IF key \in DOMAIN c.backend
    THEN [params |-> c.backend[key], hit |-> TRUE,
          cache |-> [c EXCEPT !.buffer = DictSet(c.buffer, key, c.backend[key]),
                              !.gets = c.gets + 1]]
    ELSE [params |-> live, hit |-> FALSE,
          cache |-> [c EXCEPT !.buffer = DictSet(c.buffer, key, live),
                              !.backend = DictSet(c.backend, key, live),
                              !.gets = c.gets + 1]]

-----------------------------------------------------------------------------
(* Shareabouts-specific fields *)

\* The attributes of a model instance that getattr(obj, arg_name) can find
\* under the name of a URL argument: a submission set carries the id of its
\* place (SubmissionSerializer.place has source 'parent.place').
obj_attrs(kind, pk) ==
    IF kind = "submission_set"
    THEN ("place_id" :> submission_set_place_id(pk))
    ELSE EmptyDict

\* url_arg_names of each field class
DataSetRelatedField_url_arg_names == <<"owner_username", "dataset_slug">>

PlaceRelatedField_url_arg_names ==
    <<"owner_username", "dataset_slug", "place_id">>

SubmissionSetRelatedField_url_arg_names ==
    <<"owner_username", "dataset_slug", "place_id", "submission_set_name">>

PlaceIdentityField_url_arg_names ==
    <<"owner_username", "dataset_slug", "place_id">>

\* A faulty SubmissionSetIdentityField with the url_arg_names of
\* PlaceIdentityField.
SubmissionSetIdentityField_url_arg_names_of_place ==
    <<"owner_username", "dataset_slug", "place_id">>

SubmissionSetIdentityField_url_arg_names ==
    <<"owner_username", "dataset_slug", "place_id", "submission_set_name">>

SubmissionIdentityField_url_arg_names ==
    <<"owner_username", "dataset_slug", "place_id", "submission_set_name",
      "submission_id">>

\* None as the value of a URL argument: the arguments that are primary
\* keys are integers, the others text.
None_of(arg_name) ==
    IF arg_name \in {"place_id", "submission_id"} THEN 0 ELSE NoValue

\* instance_kwargs.get(arg_name, None) is None
get_is_None(instance_kwargs, arg_name) ==
    \/ arg_name \notin DOMAIN instance_kwargs
    \/ instance_kwargs[arg_name] = None_of(arg_name)

\* A faulty loop of get_url_kwargs that does not try getattr(obj, arg_name).
url_kwargs_from_no_getattr(got, kind, pk, url_arg_names) ==
    LET names == {url_arg_names[i] : i \in DOMAIN url_arg_names}
        bad == {i \in DOMAIN url_arg_names :
                    get_is_None(got.params, url_arg_names[i])}
        kwargs == IF bad = {} THEN [a \in names |-> got.params[a]]
                  ELSE EmptyDict
        missing == IF bad = {} THEN ""
                   ELSE url_arg_names[CHOOSE i \in bad : \A j \in bad : i <= j]
    IN  [ok |-> bad = {}, kwargs |-> kwargs, missing |-> missing,
         cache |-> [got.cache EXCEPT !.log =
                       Append(@, [kind |-> kind, pk |-> pk, names |-> names,
                                  hit |-> got.hit, ok |-> bad = {},
                                  kwargs |-> kwargs, params |-> got.params,
                                  missing |-> missing])]]

\* The loop of get_url_kwargs over url_arg_names, on the instance_kwargs
\* found (got.params): each argument from instance_kwargs, else (when it is
\* not there or is None) from the attributes of obj, else KeyError naming
\* the first one found nowhere.  The call is appended to the log of the
\* cache state.
url_kwargs_from(got, kind, pk, url_arg_names) ==
    LET attrs == obj_attrs(kind, pk)
        names == {url_arg_names[i] : i \in DOMAIN url_arg_names}
        bad == {i \in DOMAIN url_arg_names :
                    /\ get_is_None(got.params, url_arg_names[i])
                    /\ url_arg_names[i] \notin DOMAIN attrs}
        kwargs == IF bad = {}
                  THEN [a \in names |-> IF ~get_is_None(got.params, a)
                                        THEN got.params[a] ELSE attrs[a]]
                  ELSE EmptyDict
        missing == IF bad = {} THEN ""
                   ELSE url_arg_names[CHOOSE i \in bad : \A j \in bad : i <= j]
    IN  [ok |-> bad = {}, kwargs |-> kwargs, missing |-> missing,
         cache |-> [got.cache EXCEPT !.log =
                       Append(@, [kind |-> kind, pk |-> pk, names |-> names,
                                  hit |-> got.hit, ok |-> bad = {},
                                  kwargs |-> kwargs, params |-> got.params,
                                  missing |-> missing])]]

\* A faulty get_url_kwargs: every field looks its instance up in the cache
\* of the submission sets, whatever the model of obj.
get_url_kwargs_wrong_cache(c, kind, pk, url_arg_names) ==
    url_kwargs_from(
        get_cached_instance_params(c, get_instance_params_key("submission_set", pk),
                                   get_instance_params(kind, pk)),
        kind, pk, url_arg_names)

\* ShareaboutsFieldMixin.get_url_kwargs(obj) for a field with the given
\* url_arg_names; obj is the instance pk of the model `kind` (for a User,
\* pk is the username).
get_url_kwargs(c, kind, pk, url_arg_names) ==
    url_kwargs_from(
        IF kind = "user"
        THEN [params |-> ("owner_username" :> pk), hit |-> FALSE, cache |-> c]
        ELSE get_cached_instance_params(c, get_instance_params_key(kind, pk),
                                        get_instance_params(kind, pk)),
        kind, pk, url_arg_names)

\* reverse(view_name, kwargs=kwargs, ...): the identifier builder, a pure
\* function of the view name and the URL arguments.
reverse(view_name, kwargs) == [view |-> view_name, kwargs |-> kwargs]

\* The URL built from the outcome k of get_url_kwargs, or its KeyError.
reversed_from(k, view_name) ==
    [ok |-> k.ok, value |-> reverse(view_name, k.kwargs),
     missing |-> k.missing, cache |-> k.cache]

\* ShareaboutsIdentityField.field_to_native(obj, field_name) and
\* ShareaboutsRelatedField.to_native(obj), for an obj that has a pk
field_to_native(c, kind, pk, view_name, url_arg_names) ==
    reversed_from(get_url_kwargs(c, kind, pk, url_arg_names), view_name)

-----------------------------------------------------------------------------
(* Request flags (sa_api_v2/params.py): the names looked up in request.GET *)

INCLUDE_INVISIBLE_PARAM == "include_invisible"

INCLUDE_PRIVATE_PARAM == "include_private"

INCLUDE_SUBMISSIONS_PARAM == "include_submissions"

AllParams ==
    {INCLUDE_INVISIBLE_PARAM, INCLUDE_PRIVATE_PARAM, INCLUDE_SUBMISSIONS_PARAM}

-----------------------------------------------------------------------------
(* DataBlobProcessor, read direction *)

\* A faulty explode_data_blob that removes the key 'private' only.
explode_data_blob_exact_key(data, GET) ==
    LET blob_data == json_loads(data["data"])
    IN  DictUpdate(DictRemove(data, "data"),
                   IF INCLUDE_PRIVATE_PARAM \notin GET
                   THEN DictRemove(blob_data, "private")
                   ELSE blob_data)

\* A faulty explode_data_blob that reads data['data'] and leaves it in.
explode_data_blob_keeps_data(data, GET) ==
    LET blob_data == json_loads(data["data"])
    IN  DictUpdate(data,
                   IF INCLUDE_PRIVATE_PARAM \notin GET
                   THEN [k \in {x \in DOMAIN blob_data : ~StartsWithPrivate(x)} |->
                            blob_data[k]]
                   ELSE blob_data)

\* explode_data_blob(data), under a request whose query parameters are GET
explode_data_blob(data, GET) ==
    LET blob == data["data"]
        rest == DictRemove(data, "data")
        blob_data == json_loads(blob)
        kept == IF INCLUDE_PRIVATE_PARAM \notin GET
                THEN [k \in {x \in DOMAIN blob_data : ~StartsWithPrivate(x)} |->
                         blob_data[k]]
                ELSE blob_data
    IN  DictUpdate(rest, kept)

-----------------------------------------------------------------------------
(* DataBlobProcessor, write direction (for PlaceSerializer) *)

\* model._meta.get_all_field_names(): the columns of a place that
\* get_uncached_data reads
model_field_names ==
    {"id", "geometry", "dataset", "submitter", "data", "visible",
     "created_datetime", "updated_datetime"}

\* self.base_fields: the fields PlaceSerializer declares, with read_only
\* and default of each
base_fields ==
    [url |-> [read_only |-> TRUE, default |-> NoValue],
     id |-> [read_only |-> TRUE, default |-> NoValue],
     geometry |-> [read_only |-> FALSE, default |-> NoValue],
     dataset |-> [read_only |-> TRUE, default |-> NoValue],
     attachments |-> [read_only |-> TRUE, default |-> NoValue],
     submitter |-> [read_only |-> FALSE, default |-> NoValue]]

\* A faulty known_fields, 'data' not removed.
known_fields_with_data == model_field_names \cup DOMAIN base_fields

\* known_fields, after update() and remove('data')
known_fields == (model_field_names \cup DOMAIN base_fields) \ {"data"}

\* A faulty restore_fields that fills the absent fields in whether the
\* serializer is partial or not.
restore_fields_always_fills(data, partial) ==
    LET blob == [k \in DOMAIN data \ known_fields |-> data[k]]
        data_copy == DictSet([k \in DOMAIN data \cap known_fields |-> data[k]],
                             "data", json_dumps(blob))
        missed == {f \in DOMAIN base_fields :
                      ~base_fields[f].read_only /\ f \notin DOMAIN data_copy}
    IN  DictUpdate(data_copy, [f \in missed |-> base_fields[f].default])

\* restore_fields(data, files), up to the call of the framework's
\* restore_fields: the data_copy handed to it
restore_fields(data, partial) ==
    LET blob == [k \in DOMAIN data \ known_fields |-> data[k]]
        data_copy == DictSet([k \in DOMAIN data \cap known_fields |-> data[k]],
                             "data", json_dumps(blob))
        missed == {f \in DOMAIN base_fields :
                      ~base_fields[f].read_only /\ f \notin DOMAIN data_copy}
    IN  IF ~partial
        THEN DictUpdate(data_copy, [f \in missed |-> base_fields[f].default])
        ELSE data_copy

\* SubmittedThingSerializer.restore_fields(data, files) of a request made
\* by `user` (NoValue when nobody is authenticated), on the result of the
\* restore_fields above
SubmittedThingSerializer_restore_fields(data, user, result) ==
    IF "submitter" \notin DOMAIN data /\ user # NoValue
    THEN DictSet(result, "submitter", user)
    ELSE result

-----------------------------------------------------------------------------
(* Serializers *)

\* the `data` column of the submissions
submission_data(s) ==
    IF s = 3 THEN <<<<"comment", "nice">>, <<"private_email", "a@b">>>>
    ELSE <<<<"comment", "meh">>>>

\* the geometry column of the places
place_geometry(p) == IF p = 1 THEN "POINT(1 2)" ELSE NoValue

\* The outcome of a to_native that returned `value`; one that raised KeyError
\* has ok = FALSE and the URL argument it missed.
Returned(value, c) ==
    [ok |-> TRUE, value |-> value, missing |-> "", cache |-> c]

\* The outcome r of a step, with its value replaced when it returned.
Then(r, value) == IF r.ok THEN Returned(value, r.cache) ELSE r

\* SubmissionSetSummarySerializer.get_uncached_data(obj), obj.length = length
summary_from(url, length) == Then(url, [length |-> length, url |-> url.value])

SubmissionSetSummarySerializer_get_uncached_data(c, ss, length) ==
    summary_from(field_to_native(c, "submission_set", ss, "submission-list",
                                 SubmissionSetIdentityField_url_arg_names),
                 length)

\* The hyperlinked fields SubmissionSerializer declares, in their order:
\* <<field name, kind and pk of the instance linked, view, url_arg_names>>.
\* dataset is the dataset of the place (get_detailed_submission_sets sets
\* it), set is the parent, place is parent.place.
SubmissionSerializer_link_fields(s) ==
    << <<"url", "submission", s, "submission-detail",
         SubmissionIdentityField_url_arg_names>>,
       <<"dataset", "dataset",
         place_dataset_id(submission_set_place_id(submission_parent_id(s))),
         "dataset-detail", DataSetRelatedField_url_arg_names>>,
       <<"set", "submission_set", submission_parent_id(s), "submission-list",
         SubmissionSetRelatedField_url_arg_names>>,
       <<"place", "place", submission_set_place_id(submission_parent_id(s)),
         "place-detail", PlaceRelatedField_url_arg_names>> >>

\* Serializer.to_native over the hyperlinked fields from the i-th on: each
\* field's URL is put in the document; a KeyError ends the walk.
RECURSIVE links_to_native(_, _, _, _)
RECURSIVE links_step(_, _, _, _)
links_to_native(c, fields, i, doc) ==
    IF i > Len(fields) THEN Returned(doc, c)
    ELSE links_step(field_to_native(c, fields[i][2], fields[i][3],
                                    fields[i][4], fields[i][5]),
                    fields, i, doc)

links_step(r, fields, i, doc) ==
    IF ~r.ok THEN r
    ELSE links_to_native(r.cache, fields, i + 1,
                         DictSet(doc, fields[i][1], r.value))

\* DataBlobProcessor.to_native(obj) of a submission, given its hyperlinked
\* fields: the other declared fields and the model's own, then
\* explode_data_blob.
submission_from(links, s, GET) ==
    Then(links,
         explode_data_blob(
             DictUpdate(links.value,
                        [id |-> s, attachments |-> <<>>, submitter |-> NoValue,
                         data |-> submission_data(s), visible |-> visible[s],
                         created_datetime |-> NoValue,
                         updated_datetime |-> NoValue]),
             GET))

\* SubmissionSerializer(...).to_native(obj)
SubmissionSerializer_to_native(c, s, GET) ==
    submission_from(
        links_to_native(c, SubmissionSerializer_link_fields(s), 1, EmptyDict),
        s, GET)

\* SubmissionSerializer(submissions, many=True).data: to_native of each
\* member from the i-th on, after the documents acc.
RECURSIVE SubmissionSerializer_data(_, _, _, _, _)
RECURSIVE SubmissionSerializer_data_step(_, _, _, _, _)
SubmissionSerializer_data(c, submissions, i, GET, acc) ==
    IF i > Len(submissions) THEN Returned(acc, c)
    ELSE SubmissionSerializer_data_step(
             SubmissionSerializer_to_native(c, submissions[i], GET),
             submissions, i, GET, acc)

SubmissionSerializer_data_step(one, submissions, i, GET, acc) ==
    IF ~one.ok THEN one
    ELSE SubmissionSerializer_data(one.cache, submissions, i + 1, GET,
                                   Append(acc, one.value))

\* A faulty filter that lets every submission through.
filtered_children_unfiltered(ss, GET) == submission_set_children(ss)

\* submission_set.children.all(), filtered as both getters filter it
filtered_children(ss, GET) ==
    LET shown(s) == visible[s]
    IN  IF INCLUDE_INVISIBLE_PARAM \notin GET
        THEN SelectSeq(submission_set_children(ss), shown)
        ELSE submission_set_children(ss)

\* PlaceSerializer.get_submission_set_summaries(obj), from the i-th
\* submission set of the place on
RECURSIVE get_submission_set_summaries_from(_, _, _, _, _)
RECURSIVE get_submission_set_summaries_step(_, _, _, _, _)
get_submission_set_summaries_from(c, p, i, GET, summaries) ==
    IF i > Len(place_submission_sets(p)) THEN Returned(summaries, c)
    ELSE IF Len(filtered_children(place_submission_sets(p)[i], GET)) = 0
    THEN get_submission_set_summaries_from(c, p, i + 1, GET, summaries)
    ELSE get_submission_set_summaries_step(
             SubmissionSetSummarySerializer_get_uncached_data(
                 c, place_submission_sets(p)[i],
                 Len(filtered_children(place_submission_sets(p)[i], GET))),
             p, i, GET, summaries)

get_submission_set_summaries_step(one, p, i, GET, summaries) ==
    IF ~one.ok THEN one
    ELSE get_submission_set_summaries_from(
             one.cache, p, i + 1, GET,
             DictSet(summaries, submission_set_name(place_submission_sets(p)[i]),
                     one.value))

get_submission_set_summaries(c, p, GET) ==
    get_submission_set_summaries_from(c, p, 1, GET, EmptyDict)

\* PlaceSerializer.get_detailed_submission_sets(obj), from the i-th
\* submission set of the place on
RECURSIVE get_detailed_submission_sets_from(_, _, _, _, _)
RECURSIVE get_detailed_submission_sets_step(_, _, _, _, _)
\* A faulty get_detailed_submission_sets that leaves the invisible
\* submissions in.
get_detailed_submission_sets_from_unfiltered(c, p, i, GET, details) ==
    IF i > Len(place_submission_sets(p)) THEN Returned(details, c)
    ELSE IF Len(submission_set_children(place_submission_sets(p)[i])) = 0
    THEN get_detailed_submission_sets_from(c, p, i + 1, GET, details)
    ELSE get_detailed_submission_sets_step(
             SubmissionSerializer_data(
                 c, submission_set_children(place_submission_sets(p)[i]), 1,
                 GET, <<>>),
             p, i, GET, details)

get_detailed_submission_sets_from(c, p, i, GET, details) ==
    IF i > Len(place_submission_sets(p)) THEN Returned(details, c)
    ELSE IF Len(filtered_children(place_submission_sets(p)[i], GET)) = 0
    THEN get_detailed_submission_sets_from(c, p, i + 1, GET, details)
    ELSE get_detailed_submission_sets_step(
             SubmissionSerializer_data(
                 c, filtered_children(place_submission_sets(p)[i], GET), 1,
                 GET, <<>>),
             p, i, GET, details)

get_detailed_submission_sets_step(one, p, i, GET, details) ==
    IF ~one.ok THEN one
    ELSE get_detailed_submission_sets_from(
             one.cache, p, i + 1, GET,
             DictSet(details, submission_set_name(place_submission_sets(p)[i]),
                     one.value))

get_detailed_submission_sets(c, p, GET) ==
    get_detailed_submission_sets_from(c, p, 1, GET, EmptyDict)

\* A faulty choice of getter, the two branches swapped.
submission_sets_getter_inverted(GET) ==
    IF INCLUDE_SUBMISSIONS_PARAM \in GET THEN "get_submission_set_summaries"
    ELSE "get_detailed_submission_sets"

\* The getter PlaceSerializer.get_uncached_data picks for submission_sets.
submission_sets_getter(GET) ==
    IF INCLUDE_SUBMISSIONS_PARAM \notin GET THEN "get_submission_set_summaries"
    ELSE "get_detailed_submission_sets"

\* The dictionary get_uncached_data builds first.
place_fields(url_value, p) ==
    [url |-> url_value, id |-> p,
     geometry |-> IF place_geometry(p) = NoValue
                  THEN "POINT(0 0)" ELSE place_geometry(p),
     dataset |-> place_dataset_id(p), attachments |-> <<>>,
     submitter |-> NoValue, data |-> placeData[p],
     visible |-> TRUE, created_datetime |-> NoValue,
     updated_datetime |-> NoValue]

\* data = self.explode_data_blob(data)
place_data(url_value, p, GET) ==
    explode_data_blob(place_fields(url_value, p), GET)

\* data['submission_sets'] = submission_sets_getter(obj)
place_with_sets(sets, data) ==
    Then(sets, DictSet(data, "submission_sets", sets.value))

\* get_uncached_data once the place's own URL is built
place_from(url, p, GET) ==
    IF ~url.ok THEN url
    ELSE place_with_sets(
             IF submission_sets_getter(GET) = "get_submission_set_summaries"
             THEN get_submission_set_summaries(url.cache, p, GET)
             ELSE get_detailed_submission_sets(url.cache, p, GET),
             place_data(url.value, p, GET))

\* PlaceSerializer.get_uncached_data(obj); CachedSerializer.to_native(obj)
\* returns it for an obj that is not None.
PlaceSerializer_get_uncached_data(c, p, GET) ==
    place_from(field_to_native(c, "place", p, "place-detail",
                               PlaceIdentityField_url_arg_names),
               p, GET)
-----------------------------------------------------------------------------
(* CachedSerializer: the preloader *)

\* many is "True", "False" or "None" (not given); obj is
\* [iterable |-> whether it has __iter__, items |-> its members, or the
\* one instance it is].
is_many(many, obj) ==
    IF many # "None" THEN many = "True" ELSE obj.iterable

\* CachedSerializer.get_data_cache_keys(items) of a serializer whose
\* Meta.model is of `kind`
get_data_cache_keys(kind, items) ==
    [i \in DOMAIN items |-> get_instance_params_key(kind, items[i])]

\* list(chain.from_iterable(item.submission_sets.all() for item in items)),
\* from the i-th item on
RECURSIVE submission_sets_of(_, _)
submission_sets_of(items, i) ==
    IF i > Len(items) THEN <<>>
    ELSE place_submission_sets(items[i]) \o submission_sets_of(items, i + 1)

\* list(chain.from_iterable(ss.children.all() for ss in submission_sets)),
\* from the i-th set on
RECURSIVE submissions_of(_, _)
submissions_of(submission_sets, i) ==
    IF i > Len(submission_sets) THEN <<>>
    ELSE submission_set_children(submission_sets[i]) \o
         submissions_of(submission_sets, i + 1)

\* PlaceSerializer.get_data_cache_keys(items)
PlaceSerializer_get_data_cache_keys(items, GET) ==
    LET place_keys == get_data_cache_keys("place", items)
        submission_sets == submission_sets_of(items, 1)
        ss_keys == get_data_cache_keys("submission_set", submission_sets)
        submissions == submissions_of(submission_sets, 1)
    IN  IF INCLUDE_SUBMISSIONS_PARAM \in GET
        THEN place_keys \o ss_keys \o
             get_data_cache_keys("submission", submissions)
        ELSE place_keys \o ss_keys

\* PlaceSerializer(...).preload_serialized_data_keys(items): the key list
\* handed to cache_buffer.get_many, and whether get_many is called at all.
preload_serialized_data_keys(many, obj, GET) ==
    IF is_many(many, obj)
    THEN [called |-> TRUE,
          cache_keys |-> PlaceSerializer_get_data_cache_keys(obj.items, GET)]
    ELSE [called |-> FALSE, cache_keys |-> <<>>]

-----------------------------------------------------------------------------
(* The serializer at work on one request *)

\* sequences over S of length at most n
RECURSIVE SeqsUpTo(_, _)
SeqsUpTo(S, n) ==
    IF n = 0 THEN {<<>>}
    ELSE LET shorter == SeqsUpTo(S, n - 1)
         IN  shorter \cup {Append(q, x) : q \in shorter, x \in S}

\* The serializers a view can build: a collection with many=True or with
\* many not given, one instance with many=False or with many not given.
Serializers ==
    {[many |-> m, object |-> [iterable |-> TRUE, items |-> q]] :
        m \in {"True", "None"}, q \in SeqsUpTo(PlacePks, MaxItems)} \cup
    {[many |-> m, object |-> [iterable |-> FALSE, items |-> <<p>>]] :
        m \in {"False", "None"}, p \in PlacePks}

NoRequest == [GET |-> {}, many |-> "None",
              object |-> [iterable |-> FALSE, items |-> <<>>],
              preloaded |-> FALSE]

NoWrite == [source |-> "none", data |-> EmptyDict, partial |-> FALSE,
            data_copy |-> EmptyDict, result |-> EmptyDict]

NoFlat == [made |-> FALSE, place |-> 1, GET |-> {}, fields |-> EmptyDict,
           blob |-> EmptyDict, dict |-> EmptyDict]

Kinds == {"dataset", "place", "submission_set", "submission"}

\* What earlier requests left in the backend: nothing (every lookup
\* misses), the entries of the datasets and places only, those of the
\* submission sets and submissions only, or every entry (every lookup hits).
InitialBackends ==
    {[k \in {x \in AllKeys : x[1] \in ks} |-> get_instance_params(k[1], k[2])] :
        ks \in {{}, {"dataset", "place"}, {"submission_set", "submission"},
                Kinds}}

\* the blobs a place can carry
PlaceDataChoices ==
    { <<>>,
      <<<<"notes", "hi">>, <<"private_phone", "555">>>>,
      <<<<"data", "d">>, <<"private", "p">>, <<"privacy", "q">>>> }

InitRender ==
    /\ buffer = EmptyDict
    /\ request = NoRequest
    /\ phase = "idle"
    /\ pos = 0
    /\ output = <<>>
    /\ modes = <<>>
    /\ resolved = <<>>
    /\ getManyCalls = 0
    /\ fetched = <<>>
    /\ getCalls = 0
    /\ evictions = 0

InitCodec ==
    /\ written = NoWrite
    /\ flat = NoFlat

\* The store of the scenario of the specification, a cache that earlier
\* requests warmed in part, no request yet.
Init ==
    /\ visible = [s \in SubmissionPks |-> s = 3]
    /\ placeData = [p \in PlacePks |->
                       IF p = 1
                       THEN <<<<"notes", "hi">>, <<"private_phone", "555">>>>
                       ELSE <<>>]
    /\ backend \in InitialBackends
    /\ InitRender
    /\ InitCodec

\* The cache as a call made now finds it.
CacheNow ==
    [buffer |-> buffer, backend |-> backend, gets |-> getCalls, log |-> <<>>]

\* A view builds a serializer for a request; the cache buffer of the
\* request starts empty.
BeginRequest(GET, serializer) ==
    /\ phase = "idle"
    /\ request' = [GET |-> GET, many |-> serializer.many,
                   object |-> serializer.object, preloaded |-> FALSE]
    /\ phase' = "begun"
    /\ UNCHANGED <<backend, buffer, pos, output, modes, resolved,
                   getManyCalls, fetched, getCalls, evictions>>
    /\ UNCHANGED <<storeVars, codecVars>>

\* The effect of preload_serialized_data_keys: get_many of the keys, when
\* the serializer is many.
Preloaded(pre) ==
    /\ request' = [request EXCEPT !.preloaded = TRUE]
    /\ IF pre.called
       THEN /\ buffer' = cache_buffer_get_many(CacheNow, pre.cache_keys).buffer
            /\ getManyCalls' = getManyCalls + 1
            /\ fetched' = pre.cache_keys
       ELSE UNCHANGED <<buffer, getManyCalls, fetched>>

\* serializer.preload_serialized_data_keys(serializer.object), when the
\* caller makes the call before it asks for the data (CachedSerializer.data
\* and field_to_native do not make it)
Preload ==
    /\ phase = "begun"
    /\ ~request.preloaded
    /\ Preloaded(preload_serialized_data_keys(request.many, request.object,
                                              request.GET))
    /\ UNCHANGED <<backend, phase, pos, output, modes, resolved, getCalls,
                   evictions>>
    /\ UNCHANGED <<storeVars, codecVars>>

\* The effect of one to_native with outcome r.  A KeyError ends the whole
\* of data.
Rendered(r) ==
    /\ buffer' = r.cache.buffer
    /\ backend' = r.cache.backend
    /\ getCalls' = r.cache.gets
    /\ resolved' = r.cache.log
    /\ IF r.ok
       THEN /\ output' = Append(output, r.value)
            /\ modes' = Append(modes, submission_sets_getter(request.GET))
            /\ pos' = pos + 1
            /\ phase' = "rendering"
       ELSE /\ phase' = "failed"
            /\ UNCHANGED <<output, modes, pos>>

\* serializer.data: to_native of the next member of the object (of the
\* object itself when the serializer is not many)
ToNative ==
    /\ phase \in {"begun", "rendering"}
    /\ pos < Len(request.object.items)
    /\ Rendered(PlaceSerializer_get_uncached_data(
                    CacheNow, request.object.items[pos + 1], request.GET))
    /\ UNCHANGED <<request, getManyCalls, fetched, evictions>>
    /\ UNCHANGED <<storeVars, codecVars>>

\* serializer.data returns once every member is rendered
DataReturn ==
    /\ phase \in {"begun", "rendering"}
    /\ pos = Len(request.object.items)
    /\ phase' = "done"
    /\ UNCHANGED <<backend, buffer, request, pos, output, modes, resolved,
                   getManyCalls, fetched, getCalls, evictions>>
    /\ UNCHANGED <<storeVars, codecVars>>

\* The cache backend drops an entry (capacity, TTL) while the request is
\* served.
Evict(key) ==
    /\ phase \in {"begun", "rendering"}
    /\ evictions < MaxEvictions
    /\ key \in DOMAIN backend
    /\ backend' = DictRemove(backend, key)
    /\ evictions' = evictions + 1
    /\ UNCHANGED <<buffer, request, phase, pos, output, modes, resolved,
                   getManyCalls, fetched, getCalls>>
    /\ UNCHANGED <<storeVars, codecVars>>

Next ==
    \/ \E GET \in SUBSET AllParams, serializer \in Serializers :
           BeginRequest(GET, serializer)
    \/ Preload
    \/ ToNative
    \/ DataReturn
    \/ \E key \in AllKeys : Evict(key)

Spec == Init /\ [][Next]_vars

-----------------------------------------------------------------------------
(* Rendering over every store: the visibility of each submission and the   *)
(* blob of each place are drawn freely, the cache starts cold.             *)

InitStore ==
    /\ visible \in [SubmissionPks -> BOOLEAN]
    /\ placeData \in [PlacePks -> PlaceDataChoices]
    /\ backend = EmptyDict
    /\ InitRender
    /\ InitCodec

NextStore ==
    \/ \E GET \in SUBSET AllParams, serializer \in Serializers :
           BeginRequest(GET, serializer)
    \/ Preload
    \/ ToNative
    \/ DataReturn

StoreSpec == InitStore /\ [][NextStore]_vars
-----------------------------------------------------------------------------
(* Rendering over a cache that holds a defective entry: the backend is     *)
(* shared with other writers and outlives the entities, so an entry may    *)
(* lack a URL argument or hold None for it.                                *)

\* the entry `params` without the argument a, and with None for it
DefectsOf(params) ==
    {DictRemove(params, a) : a \in DOMAIN params} \cup
    {DictSet(params, a, None_of(a)) : a \in DOMAIN params}

\* every entry cached and sound, but for at most one defective entry
DefectiveBackends ==
    LET sound == [k \in AllKeys |-> get_instance_params(k[1], k[2])]
    IN  {sound} \cup
        UNION {{DictSet(sound, k, e) : e \in DefectsOf(sound[k])} :
                  k \in AllKeys}

InitDefective ==
    /\ visible = [s \in SubmissionPks |-> s = 3]
    /\ placeData = [p \in PlacePks |->
                       IF p = 1
                       THEN <<<<"notes", "hi">>, <<"private_phone", "555">>>>
                       ELSE <<>>]
    /\ backend \in DefectiveBackends
    /\ InitRender
    /\ InitCodec

DefectiveSpec == InitDefective /\ [][NextStore]_vars

-----------------------------------------------------------------------------
(* Writing and reading the place documents: clients send data to           *)
(* restore_fields, whose data_copy['data'] becomes the `data` column of    *)
(* the place; explode_data_blob flattens the place; a client sends a       *)
(* flattened place back.                                                   *)

\* what a client sends under each key it can send
ClientValues ==
    [geometry |-> "POINT(3 4)", visible |-> "false", url |-> "/elsewhere",
     data |-> "d", notes |-> "n", private_phone |-> "555"]

\* the dictionaries of at most MaxInputKeys keys a client sends
InputDocs ==
    {[k \in ks |-> ClientValues[k]] :
        ks \in {x \in SUBSET DOMAIN ClientValues :
                   Cardinality(x) <= MaxInputKeys}}

InitWrites ==
    /\ visible = [s \in SubmissionPks |-> s = 3]
    /\ placeData = [p \in PlacePks |-> <<>>]
    /\ backend = EmptyDict
    /\ InitRender
    /\ InitCodec

\* the users that make the requests: nobody, or the owner
Users == {NoValue, "alice"}

\* The outcome of restore_fields(data) on place p: the `data` column of
\* the place is saved as restore_fields left it.
Restored(p, source, data, partial, user, data_copy) ==
    /\ written' = [source |-> source, data |-> data, partial |-> partial,
                   data_copy |-> data_copy,
                   result |-> SubmittedThingSerializer_restore_fields(
                                  data, user, data_copy)]
    /\ placeData' = [placeData EXCEPT ![p] = data_copy["data"]]

\* A client creates or replaces (partial = FALSE) or patches (partial = TRUE)
\* place p with the data it sends.
Write(p, data, partial, user) ==
    /\ Restored(p, "client", data, partial, user,
                restore_fields(data, partial))
    /\ flat' = NoFlat
    /\ UNCHANGED <<visible, renderVars>>

\* The dictionary of place p and what explode_data_blob makes of it.
Exploded(p, GET, fields) ==
    flat' = [made |-> TRUE, place |-> p, GET |-> GET,
             fields |-> DictRemove(fields, "data"),
             blob |-> json_loads(fields["data"]),
             dict |-> explode_data_blob(fields, GET)]

\* get_uncached_data of place p up to explode_data_blob; what was written
\* before is no longer the last call.
Explode(p, GET) ==
    /\ Exploded(p, GET,
                place_fields(field_to_native(CacheNow, "place", p,
                                             "place-detail",
                                             PlaceIdentityField_url_arg_names).value,
                             p))
    /\ written' = NoWrite
    /\ UNCHANGED <<storeVars, renderVars>>

\* The client sends the flattened place back as it got it.
WriteBack(partial, user) ==
    /\ flat.made
    /\ Restored(flat.place, "document", flat.dict, partial, user,
                restore_fields(flat.dict, partial))
    /\ UNCHANGED <<visible, renderVars, flat>>

NextWrites ==
    \/ \E p \in PlacePks, data \in InputDocs, partial \in BOOLEAN,
          user \in Users :
           Write(p, data, partial, user)
    \/ \E p \in PlacePks, GET \in SUBSET {INCLUDE_PRIVATE_PARAM} :
           Explode(p, GET)
    \/ \E partial \in BOOLEAN, user \in Users : WriteBack(partial, user)

WriteSpec == InitWrites /\ [][NextWrites]_vars
-----------------------------------------------------------------------------
(* Properties *)

\* the cache before any request has used it
ColdCache == [buffer |-> EmptyDict, backend |-> EmptyDict, gets |-> 0,
              log |-> <<>>]

\* the members of the object being serialized
Items == request.object.items

\* f restricted to the keys in S
Restrict(f, S) == [k \in S |-> f[k]]

IsPrivateKey(k) == Len(k) >= 7 /\ SubSeq(k, 1, 7) = "private"

\* Every key of the blob is in the document with the blob's value, but for
\* the private keys of a request that has no permission to see them.
BlobShown(doc, blob, GET) ==
    \A k \in DOMAIN blob :
        IF IsPrivateKey(k) /\ INCLUDE_PRIVATE_PARAM \notin GET
        THEN k \notin DOMAIN doc
        ELSE k \in DOMAIN doc /\ doc[k] = blob[k]

\* Every structured field the blob does not shadow is in the document as
\* get_uncached_data computed it.
FieldsShown(doc, fields, blob) ==
    \A k \in DOMAIN fields \ ({"data"} \cup DOMAIN blob) :
        k \in DOMAIN doc /\ doc[k] = fields[k]

SubmissionsShown(sets, GET) ==
    \A n \in DOMAIN sets : \A j \in DOMAIN sets[n] :
        BlobShown(sets[n][j], json_loads(submission_data(sets[n][j].id)), GET)

PlaceShown(doc, p, mode, GET) ==
    /\ BlobShown(doc, json_loads(placeData[p]), GET)
    /\ FieldsShown(doc, place_fields(doc.url, p), json_loads(placeData[p]))
    /\ mode = "get_detailed_submission_sets" =>
           SubmissionsShown(doc.submission_sets, GET)

\* C1: a rendered document holds a blob key that begins with 'private' if
\* and only if the request carries include_private; the other blob keys and
\* the structured fields are in the document either way.  This holds for
\* the places and for the submissions rendered inside them.
C1_PrivateRedaction ==
    \A i \in DOMAIN output :
        PlaceShown(output[i], Items[i], modes[i], request.GET)

C1_Witness ==
    /\ phase = "done"
    /\ INCLUDE_PRIVATE_PARAM \notin request.GET
    /\ INCLUDE_SUBMISSIONS_PARAM \in request.GET
    /\ \E i \in DOMAIN output :
           /\ "private" \in DOMAIN json_loads(placeData[Items[i]])
           /\ "private" \notin DOMAIN output[i]
           /\ "privacy" \in DOMAIN output[i]
           /\ "comments" \in DOMAIN output[i].submission_sets

\* The document of a member rendered alone is the document it got in the
\* collection.
SameOutcome(alone, doc) == alone.ok /\ alone.value = doc

\* C2: once the keys of a collection are preloaded, the document of each
\* member is the document that rendering the member alone gives, on a cold
\* cache and on the backend as it is, whatever the cache held at the start;
\* data returns as many documents as the collection has members, in order.
C2_BatchingEquivalence ==
    (request.preloaded /\ is_many(request.many, request.object)) =>
        /\ \A i \in DOMAIN output :
               /\ SameOutcome(PlaceSerializer_get_uncached_data(
                                  ColdCache, Items[i], request.GET),
                              output[i])
               /\ SameOutcome(PlaceSerializer_get_uncached_data(
                                  [ColdCache EXCEPT !.backend = backend],
                                  Items[i], request.GET),
                              output[i])
        /\ phase = "failed" =>
               ~PlaceSerializer_get_uncached_data(
                    ColdCache, Items[pos + 1], request.GET).ok
        /\ phase = "done" => Len(output) = Len(Items)

C2_Witness ==
    /\ phase = "done"
    /\ request.preloaded
    /\ getManyCalls = 1
    /\ Len(output) = 2
    /\ Items[1] # Items[2]
    /\ \E i, j \in DOMAIN resolved : resolved[i].hit /\ ~resolved[j].hit

\* C3 as the specification states it: when data has rendered a collection,
\* exactly one get_many was issued, whatever the size of the collection.
C3_OneFetchPerRender ==
    (phase = "done" /\ request.object.iterable) => getManyCalls = 1

ExpectedGetter(GET) ==
    IF INCLUDE_SUBMISSIONS_PARAM \in GET THEN "get_detailed_submission_sets"
    ELSE "get_submission_set_summaries"

ExpectedSets(GET, p) ==
    IF INCLUDE_SUBMISSIONS_PARAM \in GET
    THEN get_detailed_submission_sets(ColdCache, p, GET)
    ELSE get_submission_set_summaries(ColdCache, p, GET)

\* C6: every place of a request is rendered with the detailed submission
\* sets when the request carries include_submissions and with the
\* summaries otherwise, the same choice for every member of a collection.
C6_ModeByFlag ==
    /\ Len(modes) = Len(output)
    /\ \A i \in DOMAIN output :
           /\ modes[i] = ExpectedGetter(request.GET)
           /\ output[i].submission_sets =
                  ExpectedSets(request.GET, Items[i]).value

C6_Witness ==
    /\ phase = "done"
    /\ INCLUDE_SUBMISSIONS_PARAM \in request.GET
    /\ Len(output) = 2
    /\ Items[1] # Items[2]
    /\ modes[1] = "get_detailed_submission_sets"
    /\ modes[2] = "get_detailed_submission_sets"

\* the URL arguments fixed for each kind of entity
KindArgNames(kind) ==
    CASE kind = "dataset" -> {"owner_username", "dataset_slug"}
      [] kind = "place" -> {"owner_username", "dataset_slug", "place_id"}
      [] kind = "submission_set" ->
             {"owner_username", "dataset_slug", "place_id",
              "submission_set_name"}
      [] kind = "submission" ->
             {"owner_username", "dataset_slug", "place_id",
              "submission_set_name", "submission_id"}

\* The call e of get_url_kwargs returned what walking the ancestors gives,
\* under the names of the kind.
ResolvedLive(e) ==
    /\ e.ok
    /\ e.names = KindArgNames(e.kind)
    /\ e.kwargs = Restrict(get_instance_params(e.kind, e.pk),
                           KindArgNames(e.kind))

\* After the call the entry is cached: the next call for the entity hits.
PopulatedAt(key, live) ==
    /\ key \in DOMAIN buffer
    /\ buffer[key] = live
    /\ evictions = 0 => (key \in DOMAIN backend /\ backend[key] = live)
    /\ get_cached_instance_params(CacheNow, key, live).hit

\* C10: whether the entry of an entity was cached, missing or evicted,
\* get_url_kwargs returns the parameters the ancestor chain gives, under
\* exactly the names fixed for the kind; after a miss the entry is cached,
\* so that the next resolution of the entity is a hit.
C10_CacheIsAdvisory ==
    \A j \in DOMAIN resolved :
        /\ ResolvedLive(resolved[j])
        /\ PopulatedAt(get_instance_params_key(resolved[j].kind, resolved[j].pk),
                       get_instance_params(resolved[j].kind, resolved[j].pk))

C10_Witness ==
    /\ evictions > 0
    /\ \E i, j \in DOMAIN resolved :
           /\ resolved[i].hit
           /\ ~resolved[j].hit
           /\ resolved[j].kind = "submission_set"

\* the submissions of a set that a request with parameters GET may see
SeenBy(ss, GET) ==
    {s \in {submission_set_children(ss)[j] :
              j \in DOMAIN submission_set_children(ss)} :
        INCLUDE_INVISIBLE_PARAM \in GET \/ visible[s]}

SetNames(p) ==
    {submission_set_name(place_submission_sets(p)[j]) :
        j \in DOMAIN place_submission_sets(p)}

\* The summaries of place p: one per set with a submission to count, its
\* length the number of submissions the request may see.
SummaryCounts(sets, p, GET) ==
    /\ DOMAIN sets \subseteq SetNames(p)
    /\ \A j \in DOMAIN place_submission_sets(p) :
           IF Cardinality(SeenBy(place_submission_sets(p)[j], GET)) = 0
           THEN submission_set_name(place_submission_sets(p)[j])
                    \notin DOMAIN sets
           ELSE /\ submission_set_name(place_submission_sets(p)[j])
                       \in DOMAIN sets
                /\ sets[submission_set_name(place_submission_sets(p)[j])].length =
                       Cardinality(SeenBy(place_submission_sets(p)[j], GET))

\* C4: in the summaries of a place, the length of a set is the number of
\* its submissions that are visible, or of all its submissions when the
\* request carries include_invisible; a set with none to count is omitted.
C4_SummaryCounts ==
    \A i \in DOMAIN output :
        modes[i] = "get_submission_set_summaries" =>
            SummaryCounts(output[i].submission_sets, Items[i], request.GET)

C4_Witness ==
    /\ phase = "done"
    /\ INCLUDE_INVISIBLE_PARAM \notin request.GET
    /\ modes = <<"get_submission_set_summaries">>
    /\ Items = <<1>>
    /\ ~visible[3]
    /\ visible[4]
    /\ DOMAIN output[1].submission_sets = {"comments"}
    /\ output[1].submission_sets["comments"].length = 1

\* The summaries and the details name the same sets, and the length of
\* each summary is the number of submissions listed in the details.
Agree(summaries, details) ==
    /\ DOMAIN summaries = DOMAIN details
    /\ \A n \in DOMAIN summaries : summaries[n].length = Len(details[n])

\* The details list exactly the submissions the request may see.
DetailsSeen(details, p, GET) ==
    \A j \in DOMAIN place_submission_sets(p) :
        submission_set_name(place_submission_sets(p)[j]) \in DOMAIN details =>
            {details[submission_set_name(place_submission_sets(p)[j])][k].id :
                k \in DOMAIN details[submission_set_name(
                                         place_submission_sets(p)[j])]}
            = SeenBy(place_submission_sets(p)[j], GET)

\* C5: for the same place and the same include_invisible, the summaries
\* and the details name the same sets, the length of each summary is the
\* number of submissions the details list under that name, and those are
\* the submissions the visibility filter lets through.
C5_SummaryDetailAgree ==
    \A i \in DOMAIN output :
        IF modes[i] = "get_submission_set_summaries"
        THEN Agree(output[i].submission_sets,
                   get_detailed_submission_sets(
                       ColdCache, Items[i],
                       request.GET \cup {INCLUDE_SUBMISSIONS_PARAM}).value)
        ELSE /\ Agree(get_submission_set_summaries(
                          ColdCache, Items[i],
                          request.GET \ {INCLUDE_SUBMISSIONS_PARAM}).value,
                      output[i].submission_sets)
             /\ DetailsSeen(output[i].submission_sets, Items[i], request.GET)

C5_Witness ==
    /\ phase = "done"
    /\ INCLUDE_INVISIBLE_PARAM \notin request.GET
    /\ modes = <<"get_detailed_submission_sets">>
    /\ Items = <<1>>
    /\ visible[3]
    /\ ~visible[4]
    /\ Len(output[1].submission_sets["comments"]) = 1

\* C7: a flattened place that carries its private keys, sent back as a
\* partial update, is split into the structured fields and the blob it
\* was flattened from.
C7_RoundTrip ==
    (/\ written.source = "document"
     /\ written.partial
     /\ INCLUDE_PRIVATE_PARAM \in flat.GET
     /\ DOMAIN flat.fields \cap DOMAIN flat.blob = {}) =>
        /\ DictRemove(written.data_copy, "data") = flat.fields
        /\ json_loads(written.data_copy["data"]) = flat.blob

C7_Witness ==
    /\ written.source = "document"
    /\ written.partial
    /\ INCLUDE_PRIVATE_PARAM \in flat.GET
    /\ DOMAIN flat.blob = {"data", "private_phone"}

\* the names restore_fields keeps out of the blob
KnownFieldNames == (model_field_names \cup DOMAIN base_fields) \ {"data"}

Routed(data, data_copy, blob) ==
    /\ \A k \in DOMAIN data :
           IF k \in KnownFieldNames
           THEN k \in DOMAIN data_copy /\ data_copy[k] = data[k]
                /\ k \notin DOMAIN blob
           ELSE k \in DOMAIN blob /\ blob[k] = data[k]
                /\ (k # "data" => k \notin DOMAIN data_copy)
    /\ DOMAIN blob \subseteq DOMAIN data
    /\ DOMAIN blob \cap KnownFieldNames = {}
    /\ data_copy["data"] = json_dumps(blob)

\* C8: restore_fields puts every key of its input that is a known field
\* in the structured subset and every other key in the blob, with the value
\* sent; a key 'data' goes into the blob and does not replace it; a blob
\* never holds a known field.
C8_SplitRouting ==
    /\ written.source # "none" =>
           Routed(written.data, written.data_copy,
                  json_loads(written.data_copy["data"]))
    /\ \A p \in PlacePks :
           DOMAIN json_loads(placeData[p]) \cap KnownFieldNames = {}

C8_Witness ==
    /\ written.source = "client"
    /\ DOMAIN written.data = {"geometry", "data"}
    /\ json_loads(written.data_copy["data"]) = [data |-> "d"]

\* the fields a serializer declares and lets a client write
WritableDeclared == {f \in DOMAIN base_fields : ~base_fields[f].read_only}

Available(e, a) ==
    \/ a \in DOMAIN e.params /\ e.params[a] # None_of(a)
    \/ a \in DOMAIN obj_attrs(e.kind, e.pk)

\* The call e failed naming an argument that could not be had, or returned
\* a value for every argument: the cached one, else the entity's.
ResolvedOrNamed(e) ==
    /\ e.ok <=> \A a \in e.names : Available(e, a)
    /\ ~e.ok => (e.missing \in e.names /\ ~Available(e, e.missing))
    /\ e.ok =>
           /\ e.missing = ""
           /\ DOMAIN e.kwargs = e.names
           /\ \A a \in e.names :
                  e.kwargs[a] =
                      IF a \in DOMAIN e.params /\ e.params[a] # None_of(a)
                      THEN e.params[a]
                      ELSE obj_attrs(e.kind, e.pk)[a]

\* C11: get_url_kwargs fails, naming the missing argument, exactly when
\* some argument of the field is absent or None in the cached mapping and
\* is not an attribute of the entity either; otherwise it returns a value
\* for every argument of the field.
C11_UnresolvedNamesMissing ==
    \A j \in DOMAIN resolved : ResolvedOrNamed(resolved[j])

C11_Witness ==
    /\ phase = "failed"
    /\ \E i, j \in DOMAIN resolved :
           /\ resolved[i].kind = "place"
           /\ resolved[i].ok
           /\ resolved[j].kind = "submission_set"
           /\ ~resolved[j].ok
           /\ resolved[j].missing = "submission_set_name"
           /\ "submission_set_name" \in DOMAIN resolved[j].params

\* The member renders without error when it is rendered alone on the
\* backend as it is.
RendersAlone(p) ==
    PlaceSerializer_get_uncached_data([ColdCache EXCEPT !.backend = backend],
                                      p, request.GET).ok

\* C12 as the specification states it: when the rendering of one member of
\* a collection fails, every member that renders without error still
\* yields its document.
C12_ErrorsArePerItem ==
    phase = "failed" =>
        \A i \in DOMAIN Items : RendersAlone(Items[i]) => i \in DOMAIN output

\* C13 as the specification states it: when the URL of a submission set
\* cannot be resolved while the summaries of a place are made, the place
\* document is still returned, without the entry of that set.
C13_SetOmittedPlaceReturned ==
    \A j \in DOMAIN resolved :
        (/\ ExpectedGetter(request.GET) = "get_submission_set_summaries"
         /\ resolved[j].kind = "submission_set"
         /\ ~resolved[j].ok) =>
            /\ phase # "failed"
            /\ pos >= 1
            /\ submission_set_name(resolved[j].pk)
                   \notin DOMAIN output[pos].submission_sets

-----------------------------------------------------------------------------
(* The preload key list *)

\* the keys handed to the get_many of this request
FetchedKeys == {fetched[i] : i \in DOMAIN fetched}

\* the request has issued its get_many
PreloadFetched ==
    request.preloaded /\ is_many(request.many, request.object)

\* C14 as the specification states it: after preload over a collection of
\* places, every instance-params key that rendering the collection looks up
\* (of a place, a submission set, a submission, or the dataset, place or set
\* a document refers to) is among the keys preload fetched.
C14_PreloadCoversLookups ==
    PreloadFetched =>
        \A j \in DOMAIN resolved :
            get_instance_params_key(resolved[j].kind, resolved[j].pk)
                \in FetchedKeys

\* C15 as the specification states it: no key occurs twice in the key list
\* preload hands to get_many.
C15_FetchedKeysDistinct ==
    \A i, j \in DOMAIN fetched : fetched[i] = fetched[j] => i = j
====
